---- MODULE Spec2Model ----
(***************************************************************************)
(* Model of sscanss/core/instrument/simulation.py: the Simulation object   *)
(* (the Controller, living in the GUI's main thread) and the process that  *)
(* runs Simulation.execute (the Worker), joined by a bounded               *)
(* multiprocessing.Queue, a multiprocessing.Event and a shared RawArray.   *)
(*                                                                         *)
(* The Controller's CheckResult is split at each access to the queue or    *)
(* to the process, and the Worker's loop body at each call of a            *)
(* collaborator and each read of the event, so that every interleaving of  *)
(* the two processes is a behaviour of the model.  The main thread runs    *)
(* one slot at a time: abort() and start() never interleave with a         *)
(* CheckResult in progress.                                                *)
(***************************************************************************)
EXTENDS Integers, Sequences, FiniteSets, TLC

\* ---------------------------------------------------------------- bounds
\* rows of the points array handed to Simulation.__init__
MaxPoints == 3
\* alignments (vectors.shape[2]) handed to Simulation.__init__
MaxAlign == 2
\* detectors of the instrument (vectors.shape[1] // 3)
Detectors == 2
\* tasks of a run (enabled points times alignments)
MaxTasks == 4
\* calls of start() on one Simulation
MaxStarts == 2
\* tasks of a run of a Simulation that is started more than once
MaxReuseTasks == 1
\* the meshes of the sample, at most
MaxSample == 2
\* the children of the instrument node, at most
MaxNodes == 3
\* the tasks of a Simulation whose results the dialog clears, at most
MaxClearTasks == 2

\* ------------------------------------------------------------- constants
\* IKSolver.Status as SimulationDialog.showResult reads it
Status == {"Converged", "NotConverged", "Failed"}

\* python's None as a queue item, the 'Error' string and a SimulationResult
\* are told apart by their kind
NoneItem == [kind |-> "None"]
ErrorItem == [kind |-> "Error"]

\* python's None in an optional field of a SimulationResult
Absent == <<>>

VARIABLES
    construction,  \* __init__'s arrays, by their rows, and what it raised
    shape,         \* self.shape: <<points, detectors, alignments>>
    count,         \* self.count
    maxsize,       \* the maxsize of args['results']
    args,          \* self.args: the flags the Worker reads
    solver,        \* what positioner.ikine returns for each task
    vectors,       \* args['vectors'][i, :, j] of each task, in units of 1e-5
    scene,         \* len(args['sample']) and the indices of args['instrument_scene']
    results,       \* self.results
    process,       \* self.process: "None" or "Process"
    timer,         \* self.timer.isActive()
    exit_event,    \* args['exit_event'].is_set()
    queue,         \* args['results']
    path_lengths,  \* args['path_lengths']: the shared RawArray, by cell
    cpc,           \* where the main thread is inside CheckResult
    poll,          \* history: what the latest call of CheckResult has done
    wpc,           \* where the Worker is inside execute
    wargs,         \* the Worker's copy of args, taken when the process starts
    order,         \* execute's order
    index,         \* execute's index (enumerate(order))
    published,     \* history: every item the Worker has put, in put order
    fault,         \* history: the index at which a collaborator raised, or -1
    observed,      \* history: <<index, checkpoint>> where the Worker saw the event set
    late_solves,   \* history: the indices whose IK solve started with the event set
    late_puts,     \* history: how many items the Worker has put with the event set
    targets,       \* history: what the latest call of positioner.ikine was given
    manager,       \* execute's manager, sample_ids and positioner_ids
    starts,        \* history: the calls of start() so far
    orphans,       \* processes of earlier calls of start() that are still alive
    detached       \* args['path_lengths'] is a newer array than the Worker's

vars == <<construction, shape, count, maxsize, args, solver, vectors, scene, results,
          process, timer, exit_event, queue, path_lengths, cpc, poll, wpc, wargs, order,
          index, published, fault, observed, late_solves, late_puts, targets, manager,
          starts, orphans, detached>>

config == <<construction, shape, count, maxsize, solver, vectors, scene>>
controller == <<results, process, timer, cpc, poll>>
worker == <<wpc, wargs, order, index, published, fault, observed, late_solves,
            late_puts, targets, manager>>
reuse == <<starts, orphans, detached>>

\* ------------------------------------------------------------ __init__
Points == 1..MaxPoints

\* mutant of Count: the detector axis taken for the alignment axis
CountWrongAxis(s) == s[1] * s[2]

\* shape[0] * shape[2]
Count(s) == s[1] * s[3]

\* mutant of QueueSize: no slot for the Controller's None
QueueSizeNoSentinel(c) == c

\* Queue(self.count + 1)
QueueSize(c) == c + 1

\* (shape[0], shape[1]//3, shape[2]) of vectors[points.enabled, :, :], where
\* en is the set of rows that points.enabled selects
Shape(en, k) == <<Cardinality(en), Detectors, k>>

\* the cells [i, :, j] of an array of shape s, which are the tasks (i, j)
Tasks(s) == (0..(s[1] - 1)) \X (0..(s[3] - 1))

\* 0.0001, the epsilon of the selection, in units of 1e-5
Epsilon == 10

\* the components a measurement vector is drawn from, in units of 1e-5: with
\* them a vector has the norm 0, less than epsilon, exactly epsilon (6, 8, 0)
\* or more than epsilon
Components == {0, 6, 8}

\* the rows vectors[i, :, j] can be: three components for each detector
FlatVectors == [1..(3 * Detectors) -> Components]

\* vectors[i, :, j] with every detector's vector active, for each task
ActiveVectors(s) == [t \in Tasks(s) |-> [c \in 1..(3 * Detectors) |-> 8]]

\* vectors[i, :, j].reshape(-1, 3)
Reshape(flat) ==
    [g \in 1..(Len(flat) \div 3) |-> <<flat[(3 * g) - 2], flat[(3 * g) - 1], flat[3 * g]>>]

\* np.linalg.norm(v) > 0.0001, both sides squared
LongerThanEpsilon(v) ==
    (v[1] * v[1]) + (v[2] * v[2]) + (v[3] * v[3]) > Epsilon * Epsilon

\* mutant of Selected: a vector of norm epsilon is selected too
SelectedInclusive(all_mvs) ==
    SelectSeq([g \in 1..Len(all_mvs) |-> g - 1],
              LAMBDA k : LET v == all_mvs[k + 1]
                         IN (v[1] * v[1]) + (v[2] * v[2]) + (v[3] * v[3])
                                >= Epsilon * Epsilon)

\* np.where(np.linalg.norm(all_mvs, axis=1) > 0.0001)[0]: the indices (from 0)
\* of the rows that are longer than epsilon, ascending
Selected(all_mvs) ==
    SelectSeq([g \in 1..Len(all_mvs) |-> g - 1],
              LAMBDA k : LongerThanEpsilon(all_mvs[k + 1]))

\* what positioner.ikine is given for task t: q_vectors by their indices in
\* q_vec, measurement_vectors by where each comes from
Targets(t, flat) ==
    LET all_mvs == Reshape(flat)
        selected == Selected(all_mvs)
    IN IF Len(selected) = 0
       THEN [task |-> t,
             q_vectors |-> <<0>>,
             measurement_vectors |-> <<[from |-> "pose", q_vec |-> 0]>>]
       ELSE [task |-> t,
             q_vectors |-> selected,
             measurement_vectors |->
                 [k \in 1..Len(selected) |->
                     [from |-> "all_mvs",
                      row |-> selected[k],
                      value |-> all_mvs[selected[k] + 1]]]]

\* ---- the collision manager
\* the names an attribute of the instrument node can have
AttributeNames == {"Positioner", "Detector", "Jaws"}

\* a sample of one mesh and an instrument whose one child is the positioner's
\* one link
OneLinkScene == [sample |-> 1, indices |-> <<[name |-> "Positioner", end_index |-> 1]>>]

\* CollisionManager after clear(): no colliders.  excludes holds <<a, b>> when
\* the collider with id a has excludes[b] set
NoManager ==
    [colliders |-> <<>>, excludes |-> {}, sample_ids |-> <<>>, positioner_ids |-> <<>>,
     raised |-> "None"]

\* the pairs an exclusion policy excludes among the n colliders added in one
\* call, the first of which has the id offset
ExclusionPairs(policy, offset, n) ==
    LET ids == offset..(offset + n - 1)
    IN CASE policy = "All" -> {<<a, b>> \in ids \X ids : a # b}
         [] policy = "Consecutive" -> {<<a, b>> \in ids \X ids : a = b + 1 \/ b = a + 1}
         [] OTHER -> {}

\* manager.addColliders(nodes, transform, exclude, movable) for n nodes: each
\* new collider's id is its place in manager.colliders
AddColliders(m, n, policy) ==
    [m EXCEPT !.colliders = @ \o [k \in 1..n |-> Len(m.colliders) + k - 1],
              !.excludes = @ \cup ExclusionPairs(policy, Len(m.colliders), n)]

\* range(a, b) as a list
Range(a, b) == [k \in 1..(IF b > a THEN b - a ELSE 0) |-> a + k - 1]

\* mutant of ExcludeLastLink: the sample's colliders exclude the last link, and
\* the last link does not exclude them
ExcludeLastLinkOneWay(m, ns) ==
    LET last_link_collider == m.colliders[Len(m.colliders)]
    IN [m EXCEPT !.excludes =
            @ \cup {<<m.colliders[idx + 1], last_link_collider>> : idx \in 0..(ns - 1)}]

\* for index, obj in enumerate(manager.colliders[0:len(sample)]):
\*     obj.excludes[last_link_collider.id] = True
\*     last_link_collider.excludes[index] = True
ExcludeLastLink(m, ns) ==
    LET last_link_collider == m.colliders[Len(m.colliders)]
        first == IF ns < Len(m.colliders) THEN ns ELSE Len(m.colliders)
    IN [m EXCEPT !.excludes =
            @ \cup {<<m.colliders[idx + 1], last_link_collider>> : idx \in 0..(first - 1)}
              \cup {<<last_link_collider, idx>> : idx \in 0..(first - 1)}]

\* one pass of the loop over indices.items(): the attribute with the given name
\* and n nodes.  manager.colliders[-1] of an empty list raises IndexError
AddAttribute(m, name, n, ns) ==
    IF name = "Positioner"
    THEN IF m.colliders = <<>>
         THEN [m EXCEPT !.raised = "IndexError"]
         ELSE LET start_id == m.colliders[Len(m.colliders)] + 1
                  added == ExcludeLastLink(AddColliders(m, n, "Consecutive"), ns)
                  last_link_collider == added.colliders[Len(added.colliders)]
              IN [added EXCEPT !.positioner_ids =
                                   @ \o Range(start_id, last_link_collider + 1)]
    ELSE AddColliders(m, n, "Consecutive")

\* the loop over indices.items(), from start_index on
RECURSIVE AddAttributes(_, _, _, _)
AddAttributes(m, indices, start_index, ns) ==
    IF indices = <<>> \/ m.raised # "None"
    THEN m
    ELSE AddAttributes(AddAttribute(m, Head(indices).name,
                                    Head(indices).end_index - start_index, ns),
                       Tail(indices), Head(indices).end_index, ns)

\* populate_collision_manager(manager, sample, sample_pose, instrument_node)
PopulateCollisionManager(sc) ==
    AddAttributes([AddColliders(NoManager, sc.sample, "All")
                       EXCEPT !.sample_ids = Range(0, sc.sample)],
                  sc.indices, 0, sc.sample)

\* positioner.ikine is a collaborator.  Its status never decides what execute
\* does next, so the model draws its answers from four assignments: every task
\* converges, or the tasks take the three statuses in turn, from any of them on.
SolverOutcomes(s) ==
    LET turn == <<"Converged", "NotConverged", "Failed">>
    IN {[t \in Tasks(s) |-> "Converged"]} \cup
       {[t \in Tasks(s) |-> turn[((t[1] + t[2] + first) % 3) + 1]] : first \in 0..2}

\* a call of CheckResult, as it begins: whether the process had exited, whether
\* the call has appended to self.results, how many times it has emitted
\* result_updated, and whether it has returned
NewPoll(exited) == [exited |-> exited, appended |-> FALSE, emitted |-> 0, returned |-> FALSE]

\* before the first call
NoPoll == NewPoll(FALSE)

\* mutant of BooleanIndex: a mask of another length is accepted
BooleanIndexAnyLength(rows, mask) == "None"

\* vectors[points.enabled, :, :]: numpy raises IndexError when the boolean mask
\* is not as long as the axis it indexes
BooleanIndex(rows, mask) == IF rows = mask THEN "None" ELSE "IndexError"

\* __init__ with a points array of p rows and a vectors array of v rows
Construction(p, v) == [points |-> p, vectors |-> v, raised |-> BooleanIndex(v, p)]

\* what start(), CheckResult and the Worker will find, and the history empty
NotStarted ==
    /\ results = <<>>
    /\ process = "None"
    /\ timer = FALSE
    /\ exit_event = FALSE
    /\ queue = <<>>
    /\ path_lengths = <<>>
    /\ cpc = "idle"
    /\ poll = NoPoll
    /\ wpc = "none"
    /\ wargs = args
    /\ order = <<>>
    /\ index = 0
    /\ published = <<>>
    /\ fault = -1
    /\ observed = <<>>
    /\ late_solves = <<>>
    /\ late_puts = 0
    /\ targets = <<>>
    /\ manager = NoManager
    /\ starts = 0
    /\ orphans = 0
    /\ detached = FALSE

\* __init__ runs to its end
Constructed ==
    /\ \E en \in SUBSET Points, k \in 1..MaxAlign :
          /\ Cardinality(en) * k <= MaxTasks
          /\ shape = Shape(en, k)
    /\ count = Count(shape)
    /\ maxsize = QueueSize(count)
    /\ \E af \in BOOLEAN, big \in BOOLEAN :
          args = [align_first_order |-> af,
                  beam_in_gauge |-> big,
                  compute_path_length |-> FALSE,
                  render_graphics |-> FALSE,
                  check_collision |-> FALSE]
    /\ solver \in SolverOutcomes(shape)
    /\ NotStarted

Init ==
    /\ construction = Construction(MaxPoints, MaxPoints)
    /\ Constructed
    /\ vectors = ActiveVectors(shape)
    /\ scene = OneLinkScene

\* __init__ raises at line 149: there is no shape, no count, no queue and no
\* Simulation to call anything on
Raised ==
    /\ shape = <<0, Detectors, 1>>
    /\ count = 0
    /\ maxsize = 0
    /\ args = [align_first_order |-> TRUE,
               beam_in_gauge |-> TRUE,
               compute_path_length |-> FALSE,
               render_graphics |-> FALSE,
               check_collision |-> FALSE]
    /\ solver = <<>>
    /\ vectors = <<>>
    /\ scene = OneLinkScene
    /\ NotStarted

\* ------------------------------------------------------------- setters
\* the setters are called before start(), by the caller that builds the Simulation
Configurable == process = "None"

\* a true value allocates a new zeroed array, which a process that has its args
\* already does not have
SetComputePathLength(value) ==
    /\ args' = [args EXCEPT !.compute_path_length = value]
    /\ path_lengths' = IF value
                       THEN [t \in Tasks(shape) |-> [d \in 1..Detectors |-> 0]]
                       ELSE path_lengths
    /\ detached' = IF value THEN process # "None" ELSE detached
    /\ UNCHANGED <<config, starts, orphans, controller, worker, exit_event, queue>>

SetCheckCollision(value) ==
    /\ args' = [args EXCEPT !.check_collision = value]
    /\ UNCHANGED <<config, reuse, controller, worker, exit_event, queue, path_lengths>>

SetRenderGraphics(value) ==
    /\ args' = [args EXCEPT !.render_graphics = value]
    /\ UNCHANGED <<config, reuse, controller, worker, exit_event, queue, path_lengths>>

\* --------------------------------------------------------------- start
\* range(n) flattened over range(m): a nested list comprehension
RECURSIVE Flatten(_)
Flatten(ss) == IF ss = <<>> THEN <<>> ELSE Head(ss) \o Flatten(Tail(ss))

\* mutant of TaskOrder: the two orders exchanged
TaskOrderSwapped(align_first, s) ==
    IF align_first
    THEN Flatten([b \in 1..s[3] |-> [a \in 1..s[1] |-> <<a - 1, b - 1>>]])
    ELSE Flatten([a \in 1..s[1] |-> [b \in 1..s[3] |-> <<a - 1, b - 1>>]])

TaskOrder(align_first, s) ==
    IF align_first
    THEN Flatten([a \in 1..s[1] |-> [b \in 1..s[3] |-> <<a - 1, b - 1>>]])
    ELSE Flatten([b \in 1..s[3] |-> [a \in 1..s[1] |-> <<a - 1, b - 1>>]])

\* start() is called once on a Simulation: its caller builds a new one for
\* every run
Startable == process = "None"

\* process.is_alive()
IsAlive == wpc \notin {"none", "exited"}

\* mutant of Start: start() clears the exit event for the new process
StartClearsEvent ==
    /\ process' = "Process"
    /\ timer' = TRUE
    /\ exit_event' = FALSE
    /\ starts' = starts + 1
    /\ orphans' = IF IsAlive THEN orphans + 1 ELSE orphans
    /\ detached' = FALSE
    /\ wargs' = args
    /\ wpc' = "start"
    /\ order' = <<>>
    /\ index' = 0
    /\ fault' = -1
    /\ observed' = <<>>
    /\ late_solves' = <<>>
    /\ late_puts' = 0
    /\ targets' = <<>>
    /\ manager' = NoManager
    /\ UNCHANGED <<config, args, results, queue, path_lengths, cpc, poll, published>>

\* start(): self.process is a new process, which takes self.args as they are
\* now; the process self.process was before, if it is alive, stays alive
Start ==
    /\ process' = "Process"
    /\ timer' = TRUE
    /\ starts' = starts + 1
    /\ orphans' = IF IsAlive THEN orphans + 1 ELSE orphans
    /\ detached' = FALSE
    /\ wargs' = args
    /\ wpc' = "start"
    /\ order' = <<>>
    /\ index' = 0
    /\ fault' = -1
    /\ observed' = <<>>
    /\ late_solves' = <<>>
    /\ late_puts' = 0
    /\ targets' = <<>>
    /\ manager' = NoManager
    /\ UNCHANGED <<config, args, results, exit_event, queue, path_lengths, cpc,
                   poll, published>>

\* the one call of start() of a Simulation that is built for every run
FirstStart == Startable /\ Start

\* mutant of IsRunning: the exit event is not read
IsRunningIgnoresEvent == process # "None" /\ IsAlive

\* isRunning()
IsRunning ==
    IF process = "None"
    THEN FALSE
    ELSE IsAlive /\ ~exit_event

\* ------------------------------------------------------------- execute
\* mutant of Label: the ordinal prefixes the label with one alignment too
LabelAlwaysPrefixed(idx, i, j, s) ==
    [ordinal |-> idx + 1, point |-> i + 1, alignment |-> j + 1]

\* the label of a result: f'# {index+1} - Point {i+1}, Alignment {j+1}' with more
\* than one alignment, else f'Point {i+1}', as the numbers it is formatted from
Label(idx, i, j, s) ==
    IF s[3] > 1
    THEN [ordinal |-> idx + 1, point |-> i + 1, alignment |-> j + 1]
    ELSE [point |-> i + 1]

\* path_length_calculation(...): the lengths of the task, one for each detector
PathLength(i, j) == [d \in 1..Detectors |-> d + i + j]

\* manager.collide(): the collision mask of the scene, an entry for each collider
Collide(i, j) == [c \in 1..Len(manager.colliders) |-> FALSE]

\* the residual error positioner.ikine returns with its status
Residual(t) == t[1] + (2 * t[2])

\* r, error, code = positioner.ikine(...), as the pair (error, code)
Ikine(t) == <<Residual(t), solver[t]>>

\* self.error, self.code = error
SimulationResult(result_id, error, alignment, path_length, collision_mask) ==
    [kind |-> "SimulationResult",
     id |-> result_id,
     error |-> error[1],
     code |-> error[2],
     alignment |-> alignment,
     path_length |-> path_length,
     collision_mask |-> collision_mask]

\* the task of the current iteration
Current == order[index + 1]

\* mutant of WritesPathLength: beam_in_gauge is not read
WritesPathLengthAnyBeam == wargs.compute_path_length

\* compute_path_length and beam_in_gauge, as execute reads them
WritesPathLength == wargs.compute_path_length /\ wargs.beam_in_gauge

\* mutant of CurrentResult: the collision mask is attached whether or not the
\* check was asked for
CurrentResultAlwaysMask ==
    LET i == Current[1]
        j == Current[2]
    IN SimulationResult(Label(index, i, j, shape),
                        Ikine(Current),
                        j,
                        IF WritesPathLength THEN PathLength(i, j) ELSE Absent,
                        <<FALSE>>)

\* the result execute builds for the current task
CurrentResult ==
    LET i == Current[1]
        j == Current[2]
    IN SimulationResult(Label(index, i, j, shape),
                        Ikine(Current),
                        j,
                        IF WritesPathLength THEN PathLength(i, j) ELSE Absent,
                        IF wargs.check_collision THEN Collide(i, j) ELSE Absent)

\* queue.put(item), which blocks while the queue holds maxsize items
Put(item) ==
    /\ Len(queue) < maxsize
    /\ queue' = Append(queue, item)

\* execute up to the loop: the collision manager if check_collision, and the
\* order of the tasks.  populate_collision_manager is called outside the try
\* statement: if it raises the process ends and nothing is put
WorkerInitialize ==
    /\ wpc = "start"
    /\ manager' = IF wargs.check_collision
                  THEN PopulateCollisionManager(scene)
                  ELSE NoManager
    /\ IF manager'.raised # "None"
       THEN wpc' = "exited" /\ UNCHANGED order
       ELSE wpc' = "loop" /\ order' = TaskOrder(wargs.align_first_order, shape)
    /\ index' = 0
    /\ UNCHANGED <<config, reuse, args, controller, exit_event, queue, path_lengths,
                   wargs, published, fault, observed, late_solves, late_puts, targets>>

\* a collaborator raises: control passes to the except clause
Raise ==
    /\ fault' = index
    /\ wpc' = "except"

\* mutant of WorkerSolve: a status of Failed ends the loop
WorkerSolveStopsOnFailed ==
    /\ wpc = "loop"
    /\ index < Len(order)
    /\ late_solves' = IF exit_event THEN Append(late_solves, index) ELSE late_solves
    /\ targets' = Targets(Current, vectors[Current])
    /\ \/ /\ wpc' = IF solver[Current] = "Failed" THEN "exited" ELSE "checkA"
          /\ UNCHANGED fault
       \/ Raise
    /\ UNCHANGED <<config, reuse, args, controller, exit_event, queue, path_lengths,
                   wargs, order, index, published, observed, late_puts, manager>>

\* the next iteration begins: positioner.ikine for the task at index
WorkerSolve ==
    /\ wpc = "loop"
    /\ index < Len(order)
    /\ late_solves' = IF exit_event THEN Append(late_solves, index) ELSE late_solves
    /\ targets' = Targets(Current, vectors[Current])
    /\ \/ wpc' = "checkA" /\ UNCHANGED fault
       \/ Raise
    /\ UNCHANGED <<config, reuse, args, controller, exit_event, queue, path_lengths,
                   wargs, order, index, published, observed, late_puts, manager>>

\* the loop is exhausted: 'Simulation Finished'
WorkerFinish ==
    /\ wpc = "loop"
    /\ index = Len(order)
    /\ wpc' = "exited"
    /\ UNCHANGED <<config, reuse, args, controller, exit_event, queue, path_lengths,
                   wargs, order, index, published, fault, observed, late_solves, late_puts, targets, manager>>

\* mutant of Checkpoint: the event is read and the loop goes on
CheckpointContinues(at, next) ==
    /\ wpc = at
    /\ wpc' = next
    /\ observed' = IF exit_event THEN <<index, at>> ELSE observed
    /\ UNCHANGED <<config, reuse, args, controller, exit_event, queue, path_lengths,
                   wargs, order, index, published, fault, late_solves, late_puts, targets, manager>>

\* if exit_event.is_set(): break
Checkpoint(at, next) ==
    /\ wpc = at
    /\ IF exit_event
       THEN wpc' = "exited" /\ observed' = <<index, at>>
       ELSE wpc' = next /\ UNCHANGED observed
    /\ UNCHANGED <<config, reuse, args, controller, exit_event, queue, path_lengths,
                   wargs, order, index, published, fault, late_solves, late_puts, targets, manager>>

\* mutant of WorkerCheckA: the result is put straight after the solve
WorkerCheckAThenPut == Checkpoint("checkA", "put")

WorkerCheckA == Checkpoint("checkA", "path")

WorkerCheckB == Checkpoint("checkB", "collide")

WorkerCheckC == Checkpoint("checkC", "put")

\* mutant of WorkerPathLength: path_lengths[:, :, :] = length
WorkerPathLengthWholeBuffer ==
    /\ wpc = "path"
    /\ \/ /\ wpc' = "checkB"
          /\ path_lengths' =
                IF WritesPathLength
                THEN [t \in Tasks(shape) |-> PathLength(Current[1], Current[2])]
                ELSE path_lengths
          /\ UNCHANGED fault
       \/ Raise /\ UNCHANGED path_lengths
    /\ UNCHANGED <<config, reuse, args, controller, exit_event, queue,
                   wargs, order, index, published, observed, late_solves, late_puts, targets, manager>>

\* mutant of WorkerPathLength: the length is computed and not stored
WorkerPathLengthNoWrite ==
    /\ wpc = "path"
    /\ \/ wpc' = "checkB" /\ UNCHANGED fault
       \/ Raise
    /\ UNCHANGED <<config, reuse, args, controller, exit_event, queue, path_lengths,
                   wargs, order, index, published, observed, late_solves, late_puts, targets, manager>>

\* positioner.fkine, then the path length stage
WorkerPathLength ==
    /\ wpc = "path"
    /\ \/ /\ wpc' = "checkB"
          /\ path_lengths' =
                IF WritesPathLength /\ ~detached
                THEN [path_lengths EXCEPT ![Current] = PathLength(Current[1], Current[2])]
                ELSE path_lengths
          /\ UNCHANGED fault
       \/ Raise /\ UNCHANGED path_lengths
    /\ UNCHANGED <<config, reuse, args, controller, exit_event, queue,
                   wargs, order, index, published, observed, late_solves, late_puts, targets, manager>>

\* the collision stage
WorkerCollide ==
    /\ wpc = "collide"
    /\ \/ wpc' = "checkC" /\ UNCHANGED fault
       \/ wargs.check_collision /\ Raise
    /\ UNCHANGED <<config, reuse, args, controller, exit_event, queue, path_lengths,
                   wargs, order, index, published, observed, late_solves, late_puts, targets, manager>>

\* results.put(SimulationResult(...))
WorkerPut ==
    /\ wpc = "put"
    /\ Put(CurrentResult)
    /\ published' = Append(published, CurrentResult)
    /\ late_puts' = IF exit_event THEN late_puts + 1 ELSE late_puts
    /\ IF wargs.render_graphics
       THEN wpc' = "sleep" /\ UNCHANGED index
       ELSE wpc' = "loop" /\ index' = index + 1
    /\ UNCHANGED <<config, reuse, args, controller, exit_event, path_lengths,
                   wargs, order, fault, observed, late_solves, targets, manager>>

\* mutant of WorkerSleep: the task after the sleep is passed over
WorkerSleepSkipsTask ==
    /\ wpc = "sleep"
    /\ wpc' = "loop"
    /\ index' = IF index + 2 <= Len(order) THEN index + 2 ELSE index + 1
    /\ UNCHANGED <<config, reuse, args, controller, exit_event, queue, path_lengths,
                   wargs, order, published, fault, observed, late_solves, late_puts, targets, manager>>

\* time.sleep(0.2)
WorkerSleep ==
    /\ wpc = "sleep"
    /\ wpc' = "loop"
    /\ index' = index + 1
    /\ UNCHANGED <<config, reuse, args, controller, exit_event, queue, path_lengths,
                   wargs, order, published, fault, observed, late_solves, late_puts, targets, manager>>

\* mutant of WorkerExcept: the fault is logged and nothing is put
WorkerExceptSilent ==
    /\ wpc = "except"
    /\ wpc' = "exited"
    /\ UNCHANGED <<config, reuse, args, controller, exit_event, queue, path_lengths,
                   wargs, order, index, published, fault, observed, late_solves, late_puts, targets, manager>>

\* except Exception: results.put('Error')
WorkerExcept ==
    /\ wpc = "except"
    /\ Put(ErrorItem)
    /\ published' = Append(published, ErrorItem)
    /\ late_puts' = IF exit_event THEN late_puts + 1 ELSE late_puts
    /\ wpc' = "exited"
    /\ UNCHANGED <<config, reuse, args, controller, exit_event, path_lengths,
                   wargs, order, index, fault, observed, late_solves, targets, manager>>

Worker ==
    \/ WorkerInitialize
    \/ WorkerSolve
    \/ WorkerFinish
    \/ WorkerCheckA
    \/ WorkerPathLength
    \/ WorkerCheckB
    \/ WorkerCollide
    \/ WorkerCheckC
    \/ WorkerPut
    \/ WorkerSleep
    \/ WorkerExcept

\* mutant of CheckResultEmpty: no return when the queue is empty
CheckResultEmptyProceeds ==
    /\ timer
    /\ cpc = "idle"
    /\ cpc' = "alive"
    /\ poll' = NewPoll(~IsAlive)
    /\ UNCHANGED <<config, reuse, args, results, process, timer, exit_event, queue,
                   path_lengths, worker>>

\* --------------------------------------------------------- CheckResult
\* the timer fires: if self.args['results'].empty(): return
CheckResultEmpty ==
    /\ timer
    /\ cpc = "idle"
    /\ IF queue = <<>>
       THEN /\ cpc' = "idle"
            /\ poll' = [NewPoll(~IsAlive) EXCEPT !.returned = TRUE]
       ELSE /\ cpc' = "alive"
            /\ poll' = NewPoll(~IsAlive)
    /\ UNCHANGED <<config, reuse, args, results, process, timer, exit_event, queue,
                   path_lengths, worker>>

\* mutant of CheckResultAlive: the test of is_alive() inverted
CheckResultAliveInverted ==
    /\ cpc = "alive"
    /\ timer' = IF IsAlive THEN FALSE ELSE timer
    /\ cpc' = "put"
    /\ UNCHANGED <<config, reuse, args, results, process, exit_event, queue,
                   path_lengths, poll, worker>>

\* mutant of CheckResultAlive: a call that stops the timer returns at once
CheckResultAliveStopsAndReturns ==
    /\ cpc = "alive"
    /\ timer' = IF IsAlive THEN timer ELSE FALSE
    /\ cpc' = IF IsAlive THEN "put" ELSE "idle"
    /\ poll' = IF IsAlive THEN poll ELSE [poll EXCEPT !.returned = TRUE]
    /\ UNCHANGED <<config, reuse, args, results, process, exit_event, queue,
                   path_lengths, worker>>

\* if not self.process.is_alive(): self.timer.stop()
CheckResultAlive ==
    /\ cpc = "alive"
    /\ timer' = IF IsAlive THEN timer ELSE FALSE
    /\ cpc' = "put"
    /\ UNCHANGED <<config, reuse, args, results, process, exit_event, queue,
                   path_lengths, poll, worker>>

\* mutant of CheckResultPut: the iteration starts without queue.put(None)
CheckResultPutNothing ==
    /\ cpc = "put"
    /\ cpc' = "get"
    /\ UNCHANGED <<config, reuse, args, results, process, timer, exit_event, queue,
                   path_lengths, poll, worker>>

\* queue.put(None)
CheckResultPut ==
    /\ cpc = "put"
    /\ Put(NoneItem)
    /\ cpc' = "get"
    /\ UNCHANGED <<config, reuse, args, results, process, timer, exit_event,
                   path_lengths, poll, worker>>

\* mutant of CheckResultGet: result_updated.emit() inside the for loop as well
CheckResultGetEmitEach ==
    /\ cpc = "get"
    /\ queue # <<>>
    /\ queue' = Tail(queue)
    /\ IF Head(queue) = NoneItem
       THEN /\ cpc' = "idle"
            /\ poll' = [poll EXCEPT !.emitted = @ + 1, !.returned = TRUE]
            /\ UNCHANGED results
       ELSE /\ cpc' = "get"
            /\ poll' = [poll EXCEPT !.appended = TRUE, !.emitted = 1]
            /\ results' = Append(results, Head(queue))
    /\ UNCHANGED <<config, reuse, args, process, timer, exit_event, path_lengths, worker>>

\* mutant of CheckResultGet: the queue is read until it is empty, and every item
\* read is appended
CheckResultGetUntilEmpty ==
    /\ cpc = "get"
    /\ queue # <<>>
    /\ queue' = Tail(queue)
    /\ results' = Append(results, Head(queue))
    /\ IF Tail(queue) = <<>>
       THEN /\ cpc' = "idle"
            /\ poll' = [poll EXCEPT !.appended = TRUE, !.emitted = @ + 1,
                                    !.returned = TRUE]
       ELSE /\ cpc' = "get"
            /\ poll' = [poll EXCEPT !.appended = TRUE]
    /\ UNCHANGED <<config, reuse, args, process, timer, exit_event, path_lengths, worker>>

\* mutant of CheckResultGet: results.insert(0, result) for results.append(result)
CheckResultGetPrepend ==
    /\ cpc = "get"
    /\ queue # <<>>
    /\ queue' = Tail(queue)
    /\ IF Head(queue) = NoneItem
       THEN /\ cpc' = "idle"
            /\ poll' = [poll EXCEPT !.emitted = @ + 1, !.returned = TRUE]
            /\ UNCHANGED results
       ELSE /\ cpc' = "get"
            /\ poll' = [poll EXCEPT !.appended = TRUE]
            /\ results' = <<Head(queue)>> \o results
    /\ UNCHANGED <<config, reuse, args, process, timer, exit_event, path_lengths, worker>>

\* for result in iter(queue.get, None): self.results.append(result)
\* and, at the None, self.result_updated.emit()
CheckResultGet ==
    /\ cpc = "get"
    /\ queue # <<>>
    /\ queue' = Tail(queue)
    /\ IF Head(queue) = NoneItem
       THEN /\ cpc' = "idle"
            /\ poll' = [poll EXCEPT !.emitted = @ + 1, !.returned = TRUE]
            /\ UNCHANGED results
       ELSE /\ cpc' = "get"
            /\ poll' = [poll EXCEPT !.appended = TRUE]
            /\ results' = Append(results, Head(queue))
    /\ UNCHANGED <<config, reuse, args, process, timer, exit_event, path_lengths, worker>>

CheckResult ==
    \/ CheckResultEmpty
    \/ CheckResultAlive
    \/ CheckResultPut
    \/ CheckResultGet

\* --------------------------------------------------------------- abort
\* mutant of Abort: the timer is left running
AbortKeepsTimer ==
    /\ cpc = "idle"
    /\ exit_event' = TRUE
    /\ UNCHANGED <<config, reuse, args, results, process, timer, queue, path_lengths,
                   cpc, poll, worker>>

Abort ==
    /\ cpc = "idle"
    /\ exit_event' = TRUE
    /\ timer' = FALSE
    /\ UNCHANGED <<config, reuse, args, results, process, queue, path_lengths, cpc, poll,
                   worker>>

\* ---------------------------------------------------------------- Next
Setter ==
    \E value \in BOOLEAN :
        \/ SetComputePathLength(value)
        \/ SetCheckCollision(value)
        \/ SetRenderGraphics(value)

Configure == Configurable /\ Setter

Next ==
    \/ Configure
    \/ FirstStart
    \/ Abort
    \/ CheckResult
    \/ Worker

Spec == Init /\ [][Next]_vars

\* the timer fires CheckResult every 20 ms while it is active, and the operating
\* system keeps scheduling the Worker's process: a step of either that stays
\* possible is eventually taken.  start(), abort() and the setters are the
\* caller's to make or not.
Fairness == WF_vars(CheckResult) /\ WF_vars(Worker)

FairSpec == Spec /\ Fairness

\* ------------------------------------------------- one Simulation, reused
\* Nothing in Simulation refuses a setter or start() on an object whose process
\* has been started.  Here the caller, besides setting the flags before the
\* first start(), sets compute_path_length at any later time the main thread is
\* free, and calls start() again once the process has exited, or after abort()
\* while the process stands at a checkpoint, where all it will still do is see
\* the event and end.
Reconfigure ==
    /\ cpc = "idle"
    /\ process # "None"
    /\ \E value \in BOOLEAN : SetComputePathLength(value)

\* a Simulation of few tasks, whose solver converges on every one of them
ReuseInit ==
    /\ Init
    /\ count <= MaxReuseTasks
    /\ args.align_first_order
    /\ \A t \in Tasks(shape) : solver[t] = "Converged"

Restartable ==
    /\ cpc = "idle"
    /\ starts < MaxStarts
    /\ \/ ~IsAlive
       \/ exit_event /\ wpc \in {"checkA", "checkB", "checkC"}

Restart == Restartable /\ Start

\* a process of an earlier start() sees the event at its checkpoint and ends
OrphanExit ==
    /\ orphans > 0
    /\ orphans' = orphans - 1
    /\ UNCHANGED <<config, starts, detached, args, controller, worker, exit_event,
                   queue, path_lengths>>

ReuseNext ==
    \/ Configure
    \/ Reconfigure
    \/ Restart
    \/ Abort
    \/ CheckResult
    \/ Worker
    \/ OrphanExit

ReuseSpec == ReuseInit /\ [][ReuseNext]_vars

\* ------------------------------------------- the dialog clears the results
\* SimulationDialog.clearResults, when the user does not cancel: abort() if the
\* simulation is running, then self.simulation.results = []
ClearResults ==
    /\ cpc = "idle"
    /\ process # "None"
    /\ IF IsRunning
       THEN exit_event' = TRUE /\ timer' = FALSE
       ELSE UNCHANGED <<exit_event, timer>>
    /\ results' = <<>>
    /\ UNCHANGED <<config, reuse, args, process, queue, path_lengths, cpc, poll, worker>>

\* a Simulation of few tasks
ClearInit == Init /\ count <= MaxClearTasks

\* abort() of a Simulation that has been started
AbortRun == process # "None" /\ Abort

ClearNext == Configure \/ FirstStart \/ AbortRun \/ CheckResult \/ Worker \/ ClearResults

ClearSpec == ClearInit /\ [][ClearNext]_vars

\* ------------------------------------------- one task, any measurement vectors
\* a Simulation of one point and one alignment whose measurement vectors are
\* any of FlatVectors; the caller sets the flags and starts it, and the Worker
\* runs
SelectInit ==
    /\ construction = Construction(MaxPoints, MaxPoints)
    /\ Constructed
    /\ shape = <<1, Detectors, 1>>
    /\ args.align_first_order
    /\ args.beam_in_gauge
    /\ solver[<<0, 0>>] = "Converged"
    /\ vectors \in [Tasks(shape) -> FlatVectors]
    /\ scene = OneLinkScene

SelectNext == Configure \/ FirstStart \/ Worker

SelectSpec == SelectInit /\ [][SelectNext]_vars

\* ------------------------------------------- one task, any scene
\* the indices of an instrument node: attributes of different names, each with
\* the index at which its children end
IndicesOf(len) ==
    {ind \in [1..len -> [name : AttributeNames, end_index : 0..MaxNodes]] :
        /\ \A a, b \in 1..len : a # b => ind[a].name # ind[b].name
        /\ \A a \in 1..len : a > 1 => ind[a - 1].end_index <= ind[a].end_index}

Scenes ==
    {[sample |-> ns, indices |-> ind] :
        ns \in 0..MaxSample,
        ind \in UNION {IndicesOf(len) : len \in 0..Cardinality(AttributeNames)}}

\* a Simulation of one point and one alignment with any of the scenes; the
\* caller sets the flags and starts it, and the Worker runs
CollideInit ==
    /\ construction = Construction(MaxPoints, MaxPoints)
    /\ Constructed
    /\ shape = <<1, Detectors, 1>>
    /\ args.align_first_order
    /\ args.beam_in_gauge
    /\ solver[<<0, 0>>] = "Converged"
    /\ vectors = ActiveVectors(shape)
    /\ scene \in Scenes

CollideNext == Configure \/ FirstStart \/ Worker

CollideSpec == CollideInit /\ [][CollideNext]_vars

\* ------------------------------------------- __init__ on arrays of any rows
\* the vectors array has as many rows as the points array, or one more or less
BuildInit ==
    \E v \in (MaxPoints - 1)..(MaxPoints + 1) :
        /\ construction = Construction(MaxPoints, v)
        /\ IF construction.raised = "None"
           THEN Constructed /\ vectors = ActiveVectors(shape) /\ scene = OneLinkScene
           ELSE Raised

\* a constructor that raised has built no object
BuildNext == construction.raised = "None" /\ Next

BuildSpec == BuildInit /\ [][BuildNext]_vars

\* ------------------------------------------------------------ vocabulary
IsResult(x) == x.kind = "SimulationResult"

IsPrefix(a, b) == Len(a) <= Len(b) /\ \A k \in 1..Len(a) : a[k] = b[k]

\* the Worker's items of a queue, without the Controller's None
WorkerItems(q) == SelectSeq(q, LAMBDA x : x # NoneItem)

\* the task (i, j) a result was built for: its label's point and its alignment
TaskOf(r) == <<r.id.point - 1, r.alignment>>

TasksOf(rs) == [k \in 1..Len(rs) |-> TaskOf(rs[k])]

\* the place (from 1) of task t in the Worker's order
PositionOf(t) == CHOOSE p \in 1..Len(order) : order[p] = t

Initialized == wpc \notin {"none", "start"}

\* the buffer's cell of task t has been written: the buffer is allocated zeroed,
\* and the lengths of a task are not all zero
Written(t) == path_lengths # <<>> /\ path_lengths[t] # [d \in 1..Detectors |-> 0]

\* a result of task t is among the published items
Published(t) ==
    \E k \in 1..Len(published) : IsResult(published[k]) /\ TaskOf(published[k]) = t

\* how many of the Controller's None a queue holds
Sentinels(q) == Len(SelectSeq(q, LAMBDA x : x = NoneItem))

\* ---------------------------------------------------------------- claims

\* C1: every item the Worker publishes reaches the result list exactly once: at
\* every moment the result list followed by the Worker's items still in the
\* queue is exactly what the Worker has put, in order; and a started run that is
\* never aborted and meets no fault ends with the result list holding all of it,
\* count entries.
C1_Delivery ==
    /\ [](results \o WorkerItems(queue) = published)
    /\ <>[](\/ process = "None"
            \/ exit_event
            \/ fault # -1
            \/ results = published /\ Len(results) = count)

C1_Witness ==
    /\ wpc = "exited"
    /\ ~exit_event
    /\ fault = -1
    /\ count = MaxTasks
    /\ results = published
    /\ Len(results) = count

\* C2: count is the number of enabled points times the number of alignments, and
\* a Worker that ended without a fault and without seeing the event set has
\* published count items, all of them results, one for each task.
C2_Count ==
    /\ count = shape[1] * shape[3]
    /\ (wpc = "exited" /\ fault = -1 /\ observed = <<>>) =>
          /\ Len(published) = count
          /\ \A k \in 1..Len(published) : IsResult(published[k])
          /\ \A t \in Tasks(shape) :
                Cardinality({k \in 1..Len(published) : TaskOf(published[k]) = t}) = 1

C2_Witness ==
    /\ wpc = "exited"
    /\ fault = -1
    /\ observed = <<>>
    /\ shape[1] = MaxPoints
    /\ shape[3] = 1
    /\ Len(published) = MaxPoints

\* C3: the result list is a prefix of what the Worker published, and the tasks of
\* its results are a prefix of the Worker's order.
C3_Order ==
    /\ IsPrefix(results, published)
    /\ IsPrefix(TasksOf(SelectSeq(results, IsResult)), order)

C3_Witness ==
    /\ Len(results) >= 2
    /\ Len(published) > Len(results)
    /\ IsAlive

\* C4: the order is point-major with align_first_order and alignment-major
\* without it, and holds each task (i, j) exactly once.
C4_TaskOrder ==
    Initialized =>
        /\ \A t \in Tasks(shape) :
              Cardinality({p \in 1..Len(order) : order[p] = t}) = 1
        /\ Len(order) = shape[1] * shape[3]
        /\ \A p, q \in 1..Len(order) :
              p < q =>
                 IF wargs.align_first_order
                 THEN \/ order[p][1] < order[q][1]
                      \/ order[p][1] = order[q][1] /\ order[p][2] < order[q][2]
                 ELSE \/ order[p][2] < order[q][2]
                      \/ order[p][2] = order[q][2] /\ order[p][1] < order[q][1]

C4_Witness ==
    /\ Initialized
    /\ wargs.align_first_order
    /\ shape[1] = 2
    /\ shape[3] = 2
    /\ Len(order) = 4

\* C5, as the specification states it: for 2 points and 2 alignments the order is
\* (0,0),(1,0),(0,1),(1,1) with align_first_order and (0,0),(0,1),(1,0),(1,1)
\* without it.
C5_AsStated ==
    (Initialized /\ shape[1] = 2 /\ shape[3] = 2) =>
        order = IF wargs.align_first_order
                THEN << <<0, 0>>, <<1, 0>>, <<0, 1>>, <<1, 1>> >>
                ELSE << <<0, 0>>, <<0, 1>>, <<1, 0>>, <<1, 1>> >>

\* C5, amended: for 2 points and 2 alignments the order is
\* (0,0),(0,1),(1,0),(1,1) with align_first_order and (0,0),(1,0),(0,1),(1,1)
\* without it.
C5_Example ==
    (Initialized /\ shape[1] = 2 /\ shape[3] = 2) =>
        order = IF wargs.align_first_order
                THEN << <<0, 0>>, <<0, 1>>, <<1, 0>>, <<1, 1>> >>
                ELSE << <<0, 0>>, <<1, 0>>, <<0, 1>>, <<1, 1>> >>

C5_Witness ==
    /\ Initialized
    /\ shape[1] = 2
    /\ shape[3] = 2
    /\ ~wargs.align_first_order
    /\ order = << <<0, 0>>, <<1, 0>>, <<0, 1>>, <<1, 1>> >>

\* C6: once a checkpoint of the task at some index has seen the event set, the
\* Worker has left the loop, and no result of that task or of a later one is
\* among the published items, in the queue or in the result list.
C6_Checkpoint ==
    observed # <<>> =>
        /\ wpc = "exited"
        /\ \A x \in {published[k] : k \in 1..Len(published)}
                    \cup {queue[k] : k \in 1..Len(queue)}
                    \cup {results[k] : k \in 1..Len(results)} :
              IsResult(x) => PositionOf(TaskOf(x)) <= observed[1]

C6_Witness ==
    /\ observed # <<>>
    /\ observed[2] = "checkC"
    /\ observed[1] >= 1
    /\ observed[1] < count - 1
    /\ Len(published) = observed[1]

\* C7, as the specification states it: no IK solve starts while the event is set.
C7_AsStated == late_solves = <<>>

\* C7, amended: at most one IK solve starts while the event is set, and no
\* result is published for its task.
C7_OneLateSolve ==
    /\ Len(late_solves) <= 1
    /\ \A k \in 1..Len(published), n \in 1..Len(late_solves) :
          IsResult(published[k]) => PositionOf(TaskOf(published[k])) # late_solves[n] + 1

C7_Witness ==
    /\ Len(late_solves) = 1
    /\ late_solves[1] >= 1
    /\ Len(published) = late_solves[1]
    /\ wpc = "exited"

\* C8: a put of the Worker never finds the queue full, and a Worker that is
\* alive with the event set ends; abort() is one step of the main thread, which
\* does not wait for that end.
C8_Termination ==
    /\ [](wpc \in {"put", "except"} => Len(queue) < maxsize)
    /\ (exit_event /\ IsAlive) ~> (wpc = "exited")

C8_Witness ==
    /\ exit_event
    /\ cpc = "idle"
    /\ wpc = "put"
    /\ index = count - 1
    /\ Len(queue) = count - 1
    /\ count = MaxTasks

\* C9: after a fault at index p the Worker passes through the except clause and
\* ends, with index still p; what it has published is the results of the tasks
\* at 0..p-1, in order, followed, once it has ended, by one 'Error', which is not
\* a SimulationResult.
C9_Fault ==
    fault # -1 =>
        /\ wpc \in {"except", "exited"}
        /\ index = fault
        /\ Len(published) = IF wpc = "exited" THEN fault + 1 ELSE fault
        /\ \A k \in 1..fault :
              IsResult(published[k]) /\ TaskOf(published[k]) = order[k]
        /\ wpc = "exited" => /\ published[fault + 1] = ErrorItem
                             /\ ~IsResult(published[fault + 1])

C9_Witness ==
    /\ fault >= 1
    /\ fault < count - 1
    /\ wpc = "exited"
    /\ Len(published) = fault + 1

\* C10, as the specification states it: every entry of the result list is a
\* SimulationResult (the 'Error' marker is told apart and never appended).
C10_AsStated == \A k \in 1..Len(results) : IsResult(results[k])

\* C11: a call of CheckResult never waits: where it puts its None the queue has
\* room, and while it iterates the queue holds the None that ends the iteration,
\* so it returns on the items already there, whatever the Worker does.
C11_PollNeverWaits ==
    /\ cpc = "put" => Len(queue) < maxsize
    /\ cpc = "get" => /\ queue # <<>>
                      /\ Sentinels(queue) = 1

C11_Witness ==
    /\ cpc = "get"
    /\ poll.exited
    /\ wpc = "exited"
    /\ count = MaxTasks
    /\ Len(queue) = maxsize
    /\ results = <<>>

\* C12: a call of CheckResult emits result_updated once if it has appended to
\* the result list and not at all if it has not: no call emits before it has
\* appended, none emits twice, and one that has returned has emitted exactly
\* when it has appended.
C12_Notification ==
    /\ poll.emitted <= 1
    /\ poll.emitted = 1 => poll.appended /\ poll.returned /\ results # <<>>
    /\ poll.returned => (poll.appended <=> poll.emitted = 1)

C12_Witness ==
    /\ poll.returned
    /\ poll.appended
    /\ poll.emitted = 1
    /\ Len(results) >= 2
    /\ results = published
    /\ wpc = "put"

\* C13: a call of CheckResult that finds the queue empty returns at once: it
\* leaves the result list and the queue as they were, appends nothing and emits
\* nothing; this holds of every such call, so of a second one in a row.
C13_EmptyPoll ==
    [][(cpc = "idle" /\ queue = <<>> /\ CheckResult) =>
          /\ results' = results
          /\ queue' = queue
          /\ cpc' = "idle"
          /\ poll'.returned
          /\ ~poll'.appended
          /\ poll'.emitted = 0]_vars

C13_Witness ==
    /\ cpc = "idle"
    /\ timer
    /\ queue = <<>>
    /\ poll.returned
    /\ ~poll.appended
    /\ poll.emitted = 0
    /\ Len(results) >= 2
    /\ IsAlive

\* C14, as the specification states it: a call of CheckResult that began after
\* the Worker's process had exited has, once it has returned, stopped the timer,
\* whether or not it found the queue empty.
C14_AsStated == (poll.exited /\ poll.returned) => ~timer

\* C15: isRunning() is true exactly when the Worker's process has been started
\* and has not exited and the exit event is not set; before start() it is false.
C15_IsRunning ==
    /\ IsRunning <=> (wpc \notin {"none", "exited"} /\ ~exit_event)
    /\ process = "None" => ~IsRunning

C15_Witness ==
    /\ IsRunning
    /\ process = "Process"
    /\ wpc = "collide"
    /\ ~exit_event
    /\ Len(results) >= 1

\* C16, as the specification states it: the Controller never inserts an item
\* into the queue, so the queue never holds a None.
C16_AsStated == \A k \in 1..Len(queue) : queue[k] # NoneItem

\* C16, amended: the Worker is the only producer of results and of 'Error'; the
\* one item the Controller inserts is its None, once in a call of CheckResult that
\* found the queue not empty, and that call takes it out before it returns: the
\* queue holds one None while such a call iterates and none otherwise, and every
\* other item that enters the queue is the one the Worker publishes in that step.
C16_Producers ==
    /\ [](Sentinels(queue) = IF cpc = "get" THEN 1 ELSE 0)
    /\ [][Len(queue') > Len(queue) =>
            \/ /\ queue' = Append(queue, NoneItem)
               /\ cpc = "put"
               /\ cpc' = "get"
               /\ published' = published
            \/ /\ Len(published') = Len(published) + 1
               /\ published'[Len(published')] # NoneItem
               /\ queue' = Append(queue, published'[Len(published')])
               /\ cpc' = cpc]_vars

C16_Witness ==
    /\ cpc = "get"
    /\ Head(queue) = NoneItem
    /\ Len(queue) >= 2
    /\ Len(results) >= 1

\* C17: the queue's capacity is count + 1, and the queue never holds more than
\* count + 1 items: at most count of the Worker's and one None; where the Worker
\* or the Controller is about to put, it holds at most count, so no put waits
\* for room.
C17_Capacity ==
    /\ maxsize = count + 1
    /\ Len(WorkerItems(queue)) <= count
    /\ Len(queue) <= count + 1
    /\ (cpc = "put" \/ wpc \in {"put", "except"}) => Len(queue) <= count

C17_Witness ==
    /\ count = MaxTasks
    /\ Len(queue) = count + 1
    /\ queue[count] = ErrorItem
    /\ queue[count + 1] = NoneItem

\* C18: the Worker stores the lengths of a task in the buffer before it
\* publishes the task's result: for every published result that carries a path
\* length, in the queue or in the result list, the buffer's cell of its task
\* holds that path length.
C18_WriteBeforePublish ==
    \A k \in 1..Len(published) :
        (IsResult(published[k]) /\ published[k].path_length # Absent) =>
            /\ path_lengths # <<>>
            /\ path_lengths[TaskOf(published[k])] = published[k].path_length

C18_Witness ==
    /\ Len(results) >= 2
    /\ IsResult(results[2])
    /\ results[2].path_length # Absent
    /\ path_lengths[TaskOf(results[2])] = results[2].path_length
    /\ wpc = "path"

\* C19: with compute_path_length and beam_in_gauge both true when the run
\* started, every published result carries a path length and the cell of its
\* task is written; otherwise no published result carries one and no cell of
\* the buffer is ever written.
C19_PathLengthIff ==
    LET on == wargs.compute_path_length /\ wargs.beam_in_gauge
    IN /\ \A k \in 1..Len(published) :
             IsResult(published[k]) =>
                /\ published[k].path_length # Absent <=> on
                /\ Written(TaskOf(published[k])) <=> on
       /\ ~on => \A t \in Tasks(shape) : ~Written(t)

C19_Witness ==
    /\ wargs.compute_path_length
    /\ ~wargs.beam_in_gauge
    /\ path_lengths # <<>>
    /\ Len(published) >= 2
    /\ IsResult(published[2])
    /\ published[2].path_length = Absent
    /\ ~Written(TaskOf(published[2]))

\* C20, as the specification states it: a cell of the buffer is written only if
\* the result of its task has been published.
C20_AsStated == \A t \in Tasks(shape) : Written(t) => Published(t)

\* C20, amended: only the Worker's path length stage writes a cell, the cell of
\* the task it is working on; a written cell is the cell of a published result
\* or of the one task the Worker has taken past that stage without publishing
\* it yet, which stays unpublished when the Worker sees the event at checkpoint
\* B or C or meets a fault in the collision stage.
C20_WrittenCells ==
    /\ [](\A t \in Tasks(shape) :
            Written(t) =>
               \/ Published(t)
               \/ /\ index < Len(order)
                  /\ t = Current
                  /\ wpc \in {"checkB", "collide", "checkC", "put", "except", "exited"})
    /\ [][\A t \in Tasks(shape) :
            (~Written(t) /\ Written(t)') => (wpc = "path" /\ t = Current)]_vars

C20_Witness ==
    /\ wpc = "exited"
    /\ observed # <<>>
    /\ observed[2] = "checkB"
    /\ Len(published) >= 1
    /\ Written(Current)
    /\ ~Published(Current)

\* C21, as the specification states it: whatever setter calls and start() the
\* caller makes, the array the Controller reads through path_lengths is the one
\* the Worker writes, and a cell that has been written stays written.
C21_AsStated ==
    /\ [](WritesPathLength => ~detached)
    /\ [][\A t \in Tasks(shape) : Written(t) => Written(t)']_vars

\* C22, as the specification states it: once start() has been called the
\* configuration the Controller holds does not change: a setter call is refused
\* and leaves self.args as it was.
C22_AsStated == [][process # "None" => args' = args]_vars

\* C23, as the specification states it: no two processes of one Simulation are
\* alive at once, and the result list never holds results of two runs, so no
\* task has two results in it.
C23_AsStated ==
    /\ ~(IsAlive /\ orphans > 0)
    /\ \A k, n \in 1..Len(results) :
          (k # n /\ IsResult(results[k]) /\ IsResult(results[n])) =>
              TaskOf(results[k]) # TaskOf(results[n])

\* C24: the exit event, once set, stays set, also across a later start() of the
\* same Simulation, and the only step that sets it is abort(): the Worker reads
\* it and never writes it.
C24_EventNeverCleared ==
    [][/\ exit_event => exit_event'
       /\ (~exit_event /\ exit_event') => Abort]_vars

C24_Witness ==
    /\ starts = 2
    /\ orphans = 1
    /\ exit_event
    /\ wpc = "exited"
    /\ observed = <<0, "checkA">>

C26_StatusPassesThrough ==
    /\ \A n \in 1..Len(published) :
          IsResult(published[n]) =>
              /\ published[n].error = Residual(TaskOf(published[n]))
              /\ published[n].code = solver[TaskOf(published[n])]
    /\ (wpc = "exited" /\ fault = -1 /\ observed = <<>>) =>
          /\ Len(published) = count
          /\ \A t \in Tasks(shape) : Published(t)

\* a run of four tasks has ended with every result published, the first with
\* the status NotConverged, the next two with Failed and the last with Converged
C26_Witness ==
    /\ wpc = "exited"
    /\ fault = -1
    /\ observed = <<>>
    /\ Len(published) = MaxTasks
    /\ published[1].code = "NotConverged"
    /\ published[2].code = "Failed"
    /\ published[3].code = "Failed"
    /\ published[MaxTasks].code = "Converged"
    /\ published[MaxTasks].error = Residual(order[MaxTasks])

\* ---------------------------------------------------------------------- C27
\* C27: a published result has a collision mask exactly when check_collision
\* was set as the run started.  A run over three points and one alignment with
\* compute_path_length and check_collision both off, neither aborted nor ended
\* by a fault, publishes exactly three results, those of points 0, 1 and 2 in
\* this order, each with a status and with neither path length nor mask.
C27_CollisionMask ==
    /\ \A n \in 1..Len(published) :
          IsResult(published[n]) =>
              (published[n].collision_mask # Absent <=> wargs.check_collision)
    /\ ( /\ shape[1] = 3
         /\ shape[3] = 1
         /\ ~wargs.compute_path_length
         /\ ~wargs.check_collision
         /\ wpc = "exited"
         /\ fault = -1
         /\ observed = <<>> ) =>
          /\ Len(published) = 3
          /\ \A n \in 1..3 :
                /\ IsResult(published[n])
                /\ TaskOf(published[n]) = <<n - 1, 0>>
                /\ published[n].code \in Status
                /\ published[n].path_length = Absent
                /\ published[n].collision_mask = Absent

\* the run of the scenario has ended with its three results, and the Controller
\* has taken them all
C27_Witness ==
    /\ shape[1] = 3
    /\ shape[3] = 1
    /\ ~wargs.compute_path_length
    /\ ~wargs.check_collision
    /\ wpc = "exited"
    /\ fault = -1
    /\ observed = <<>>
    /\ Len(published) = 3
    /\ published[3].collision_mask = Absent
    /\ results = published

\* ---------------------------------------------------------------------- C28
\* C28: the result list never holds more than count entries, whatever the
\* sequence of start, poll and abort, a further start after the run has
\* completed included.
C28_AsStated == Len(results) <= count

\* ---------------------------------------------------------------------- C29
\* the n-th item the Worker has put is a result, put while abort() had not
\* been called
PublishedBeforeAbort(n) ==
    ~exit_event /\ Len(published) >= n /\ IsResult(published[n])

\* the n-th item the Worker has put is in the result list
Drained(n) == Len(results) >= n /\ results[n] = published[n]

\* C29: a result the Worker has published before abort() is called is in the
\* result list once the run has ended, whether or not a poll had taken it when
\* abort() was called.
C29_AsStated == \A n \in 1..MaxTasks : PublishedBeforeAbort(n) ~> Drained(n)

\* ---------------------------------------------------------------------- C30
\* the places of execute that follow one another: within an iteration the solve,
\* the first checkpoint, the path length stage, the second checkpoint, the
\* collision stage, the third checkpoint and the put; from a checkpoint the
\* break; from a stage the except clause
StageEdges ==
    {<<"none", "start">>, <<"start", "loop">>,
     <<"loop", "checkA">>, <<"checkA", "path">>, <<"path", "checkB">>,
     <<"checkB", "collide">>, <<"collide", "checkC">>, <<"checkC", "put">>,
     <<"put", "loop">>, <<"put", "sleep">>, <<"sleep", "loop">>,
     <<"loop", "exited">>,
     <<"checkA", "exited">>, <<"checkB", "exited">>, <<"checkC", "exited">>,
     <<"loop", "except">>, <<"path", "except">>, <<"collide", "except">>,
     <<"except", "exited">>}

\* C30: within a task the stages run in the order solve, path length,
\* collision, put.  The Worker moves only along the edges above; the buffer is
\* written only by the path length stage, which follows the solve; a result is
\* put only from the place after the third checkpoint, and the next task begins
\* only after the put; and a Worker that has seen the event at a checkpoint has
\* exited, after which it runs no stage, writes nothing and puts nothing.
C30_StageOrder ==
    /\ [][wpc' # wpc => <<wpc, wpc'>> \in StageEdges]_vars
    /\ [][(process # "None" /\ path_lengths' # path_lengths) =>
            (wpc = "path" /\ wpc' = "checkB" /\ WritesPathLength)]_vars
    /\ [][published' # published =>
            \/ /\ wpc = "put"
               /\ published' = Append(published, CurrentResult)
               /\ WritesPathLength => Written(Current)
               /\ wargs.check_collision => CurrentResult.collision_mask = Collide(Current[1], Current[2])
            \/ wpc = "except" /\ published' = Append(published, ErrorItem)]_vars
    /\ [][index' # index =>
            (wpc \in {"put", "sleep"} /\ wpc' = "loop" /\ index' = index + 1
             /\ Len(published') = index')]_vars
    /\ [](observed # <<>> => wpc = "exited")
    /\ [][wpc = "exited" =>
            (wpc' = "exited" /\ published' = published /\ index' = index
             /\ path_lengths' = path_lengths)]_vars

\* with both stages enabled the first task went through all of them and was
\* put, and the Worker then saw the event at the second checkpoint of the next
\* task and exited
C30_Witness ==
    /\ WritesPathLength
    /\ wargs.check_collision
    /\ Len(published) = 1
    /\ IsResult(published[1])
    /\ Written(order[1])
    /\ published[1].collision_mask # Absent
    /\ observed = <<1, "checkB">>
    /\ wpc = "exited"

\* ---------------------------------------------------------------------- C31
\* the n-th result of a run, from the configuration and the solver's answers
\* alone; render_graphics is not read
ExpectedResult(n) ==
    LET t == TaskOrder(wargs.align_first_order, shape)[n]
    IN [kind |-> "SimulationResult",
        id |-> Label(n - 1, t[1], t[2], shape),
        error |-> Residual(t),
        code |-> solver[t],
        alignment |-> t[2],
        path_length |-> IF wargs.compute_path_length /\ wargs.beam_in_gauge
                        THEN PathLength(t[1], t[2]) ELSE Absent,
        collision_mask |-> IF wargs.check_collision
                           THEN Collide(t[1], t[2]) ELSE Absent]

\* the items of a run in which the collaborator of task number f (from 0)
\* raised, or none did (f = -1)
ExpectedItems(f) ==
    IF f = -1
    THEN [n \in 1..count |-> ExpectedResult(n)]
    ELSE [n \in 1..(f + 1) |-> IF n = f + 1 THEN ErrorItem ELSE ExpectedResult(n)]

\* C31: the sleep for the renderer does not change what a run produces.  The
\* items the Worker has put are at every moment a prefix of a sequence that is
\* fixed by the configuration, the solver's answers and the task that raised,
\* without reading render_graphics; a run that was not aborted ends with all
\* of that sequence put, with the buffer's cells written exactly if the path
\* length was asked for, and, once the queue is drained, with that sequence as
\* the result list.
C31_ThrottleOnly ==
    /\ Initialized => IsPrefix(published, ExpectedItems(fault))
    /\ (wpc = "exited" /\ observed = <<>>) =>
          /\ published = ExpectedItems(fault)
          /\ (queue = <<>> /\ cpc = "idle") => results = ExpectedItems(fault)
          /\ fault = -1 =>
                \A t \in Tasks(shape) :
                    /\ Written(t) <=> WritesPathLength
                    /\ Written(t) => path_lengths[t] = PathLength(t[1], t[2])

\* a run of four tasks with render_graphics set has slept after each put and
\* ended, and the Controller has taken its four results
C31_Witness ==
    /\ wargs.render_graphics
    /\ WritesPathLength
    /\ wpc = "exited"
    /\ fault = -1
    /\ observed = <<>>
    /\ count = MaxTasks
    /\ results = published
    /\ Len(results) = MaxTasks

\* ---------------------------------------------------------------------- C32
\* C32: the n-th published result is that of the n-th task (i, j) of the order.
\* With one alignment its label is 'Point {i+1}' and nothing else; with more
\* than one it is 'Point {i+1}, Alignment {j+1}' prefixed by the ordinal n, so
\* that the ordinals of the published results are 1, 2, 3, ... without a gap.
C32_Label ==
    \A n \in 1..Len(published) :
        IsResult(published[n]) =>
            /\ n <= Len(order)
            /\ IF shape[3] = 1
               THEN /\ DOMAIN published[n].id = {"point"}
                    /\ published[n].id.point = order[n][1] + 1
               ELSE /\ DOMAIN published[n].id = {"ordinal", "point", "alignment"}
                    /\ published[n].id.ordinal = n
                    /\ published[n].id.point = order[n][1] + 1
                    /\ published[n].id.alignment = order[n][2] + 1

\* with two alignments, alignment-major, four results are published; the third
\* is '# 3 - Point 1, Alignment 2'
C32_Witness ==
    /\ shape[3] = 2
    /\ ~wargs.align_first_order
    /\ Len(published) = 4
    /\ IsResult(published[3])
    /\ published[3].id = [ordinal |-> 3, point |-> 1, alignment |-> 2]
    /\ IsResult(published[4])

\* ---------------------------------------------------------------------- C33
\* the detectors (from 0) whose measurement vector for task t has a norm
\* greater than 0.0001
ActiveGroups(t) ==
    {g \in 0..(Detectors - 1) :
        LET x == vectors[t][(3 * g) + 1]
            y == vectors[t][(3 * g) + 2]
            z == vectors[t][(3 * g) + 3]
        IN (x * x) + (y * y) + (z * z) > Epsilon * Epsilon}

\* C33: the solver is given exactly the measurement vectors whose norm is
\* greater than epsilon, each with the q-vector of its index, and never one of
\* norm epsilon or less; if none is active it is given one fallback target made
\* from the first q-vector.  It always gets at least one target, and as many
\* q-vectors as measurement vectors.
C33_Selection ==
    targets # <<>> =>
        LET q == targets.q_vectors
            mv == targets.measurement_vectors
            active == ActiveGroups(targets.task)
        IN /\ Len(q) = Len(mv)
           /\ Len(q) >= 1
           /\ IF active = {}
              THEN /\ q = <<0>>
                   /\ mv = <<[from |-> "pose", q_vec |-> 0]>>
              ELSE /\ Len(q) = Cardinality(active)
                   /\ {q[k] : k \in 1..Len(q)} = active
                   /\ \A k \in 1..Len(q) :
                         /\ mv[k].from = "all_mvs"
                         /\ mv[k].row = q[k]
                         /\ mv[k].value = <<vectors[targets.task][(3 * q[k]) + 1],
                                            vectors[targets.task][(3 * q[k]) + 2],
                                            vectors[targets.task][(3 * q[k]) + 3]>>

\* the first detector's vector (6, 8, 0) has exactly the norm epsilon and the
\* second's is longer: the solver was given the second alone
C33_Witness ==
    /\ Detectors >= 2
    /\ wpc = "checkA"
    /\ vectors[<<0, 0>>][1] = 6
    /\ vectors[<<0, 0>>][2] = 8
    /\ vectors[<<0, 0>>][3] = 0
    /\ vectors[<<0, 0>>][4] = 8
    /\ targets # <<>>
    /\ targets.q_vectors[1] = 1
    /\ targets.measurement_vectors[1].row = 1

\* ---------------------------------------------------------------------- C34
\* the place of the Positioner among the scene's attributes, or 0
PositionerAt ==
    IF \E p \in 1..Len(scene.indices) : scene.indices[p].name = "Positioner"
    THEN CHOOSE p \in 1..Len(scene.indices) : scene.indices[p].name = "Positioner"
    ELSE 0

\* the ids of the colliders added for the positioner's nodes: the sample's
\* colliders come first, then the instrument's children in their order
PositionerColliders ==
    IF PositionerAt = 0
    THEN {}
    ELSE LET from == IF PositionerAt = 1 THEN 0
                     ELSE scene.indices[PositionerAt - 1].end_index
             to == scene.indices[PositionerAt].end_index
         IN {scene.sample + k : k \in from..(to - 1)}

\* populate_collision_manager has returned in the Worker's process
Populated == Initialized /\ wargs.check_collision /\ manager.raised = "None"

\* C34: after populate_collision_manager the sample's ids are 0..len(sample)-1,
\* the ids of the sample's colliders; the positioner's ids are the ids of the
\* colliders added for the positioner, a contiguous range disjoint from the
\* sample's ids; every sample collider and the last collider of the positioner
\* exclude each other, both ways; and a collision mask has an entry for each
\* collider.
C34_Colliders ==
    Populated =>
        LET sample_ids == {manager.sample_ids[k] : k \in 1..Len(manager.sample_ids)}
            positioner_ids ==
                {manager.positioner_ids[k] : k \in 1..Len(manager.positioner_ids)}
            total == scene.sample + (IF scene.indices = <<>> THEN 0
                                     ELSE scene.indices[Len(scene.indices)].end_index)
        IN /\ manager.sample_ids = [k \in 1..scene.sample |-> k - 1]
           /\ \A k \in 1..scene.sample : manager.colliders[k] = k - 1
           /\ positioner_ids = PositionerColliders
           /\ Len(manager.positioner_ids) = Cardinality(PositionerColliders)
           /\ \A k \in 1..Len(manager.positioner_ids) :
                 k > 1 => manager.positioner_ids[k] = manager.positioner_ids[k - 1] + 1
           /\ positioner_ids \cap sample_ids = {}
           /\ PositionerColliders # {} =>
                 LET tool == CHOOSE a \in PositionerColliders :
                                 \A b \in PositionerColliders : b <= a
                 IN \A sm \in sample_ids :
                        <<sm, tool>> \in manager.excludes /\ <<tool, sm>> \in manager.excludes
           /\ Len(manager.colliders) = total
           /\ \A n \in 1..Len(published) :
                 IsResult(published[n]) => Len(published[n].collision_mask) = total

\* a sample of two meshes and an instrument of a detector and a positioner of
\* two links: the positioner's ids are 3 and 4, the tool link 4 and the sample's
\* colliders exclude each other, and the result's mask has five entries
C34_Witness ==
    /\ Populated
    /\ scene = [sample |-> 2,
                indices |-> <<[name |-> "Detector", end_index |-> 1],
                              [name |-> "Positioner", end_index |-> 3]>>]
    /\ manager.positioner_ids = <<3, 4>>
    /\ <<0, 4>> \in manager.excludes
    /\ <<4, 1>> \in manager.excludes
    /\ Len(published) = 1
    /\ IsResult(published[1])
    /\ Len(published[1].collision_mask) = 5

\* ---------------------------------------------------------------------- C35
\* C35, as stated: after the event is set the Worker puts at most one more
\* item and starts at most one more IK solve.
C35_AsStated == late_puts <= 1 /\ Len(late_solves) <= 1

\* C35, amended: after the event is set the Worker starts at most one more IK
\* solve and puts at most one more result, that of the task which had passed
\* its last checkpoint, before any later solve; it puts at most one 'Error'
\* after that, if the stage it is in or that one solve raises.  A Worker that
\* broke at a checkpoint has put at most one item since the event was set.
C35_OneMoreResult ==
    /\ Len(late_solves) <= 1
    /\ late_puts <= 2
    /\ late_puts <= Len(published)
    /\ \A n \in 1..Len(published) :
          (n > Len(published) - late_puts /\ IsResult(published[n])) =>
              /\ n = (Len(published) - late_puts) + 1
              /\ \A k \in 1..Len(late_solves) :
                    PositionOf(TaskOf(published[n])) = late_solves[k]
    /\ late_puts = 2 => (published[Len(published)] = ErrorItem /\ wpc = "exited")
    /\ observed # <<>> => late_puts <= 1

\* the event was set while the Worker was about to put the result of the first
\* task: it put it, began the solve of the second and broke at its first
\* checkpoint
C35_Witness ==
    /\ late_puts = 1
    /\ late_solves = <<1>>
    /\ Len(published) = 1
    /\ IsResult(published[1])
    /\ observed = <<1, "checkA">>
    /\ wpc = "exited"

\* ---------------------------------------------------------------------- C36
\* C36: once abort() has been called the result list never grows: a step
\* leaves it as it is or, when the dialog clears it, empties it, and no poll
\* begins.  Results cleared after an abort therefore do not come back.
C36_NoGrowthAfterAbort ==
    /\ [][exit_event => (results' = results \/ results' = <<>>)]_vars
    /\ [](exit_event => (~timer /\ cpc = "idle"))

\* the dialog has cleared the results while the run was going on: the run is
\* aborted, the list that held a result is empty, and a result that the Worker
\* has put since is in the queue
C36_Witness ==
    /\ exit_event
    /\ results = <<>>
    /\ Len(published) = 2
    /\ Len(queue) = 1
    /\ wpc = "exited"

\* ---------------------------------------------------------------------- C37
\* C37: the None of a call of CheckResult is that call's own.  A call that has
\* put it takes out exactly it as its last item before it returns: outside a
\* call the queue holds no None and no None is ever in the result list; the
\* call appends the items that were ahead of its None, in order, and what the
\* Worker put behind the None is still in the queue, in order, when the call
\* returns.
C37_SentinelPrivate ==
    /\ [](cpc # "get" => Sentinels(queue) = 0)
    /\ [](\A k \in 1..Len(results) : results[k] # NoneItem)
    /\ [][(cpc = "put" /\ cpc' # "put") =>
            (cpc' = "get" /\ queue' = Append(queue, NoneItem) /\ results' = results)]_vars
    /\ [][(cpc = "get" /\ cpc' = "get" /\ Len(queue') < Len(queue)) =>
            /\ Head(queue) # NoneItem
            /\ results' = Append(results, Head(queue))
            /\ queue' = Tail(queue)]_vars
    /\ [][(cpc = "get" /\ cpc' = "idle") =>
            /\ Head(queue) = NoneItem
            /\ queue' = Tail(queue)
            /\ results' = results
            /\ Sentinels(queue') = 0
            /\ results' \o queue' = published']_vars

\* a call of CheckResult has returned with two results appended while the
\* Worker's third, put behind the None, is left in the queue
C37_Witness ==
    /\ cpc = "idle"
    /\ poll.returned
    /\ poll.appended
    /\ Len(results) = 2
    /\ Len(queue) = 1
    /\ queue[1] = published[3]
    /\ IsAlive

\* ---------------------------------------------------------------------- C38
\* the timer of a started Simulation is stopped, not by abort(), and no call of
\* CheckResult is under way
StoppedByPoll == process # "None" /\ ~timer /\ ~exit_event /\ cpc = "idle"

\* C38: short of abort() the timer is stopped only by a call of CheckResult
\* that found the queue not empty and the process exited, and that call takes
\* every item out of the queue: once it has returned the queue is empty and the
\* result list is all the Worker has put.
C38_StopDrains ==
    /\ [](StoppedByPoll =>
            /\ wpc = "exited"
            /\ poll.returned
            /\ queue = <<>>
            /\ results = published)
    /\ [][(timer /\ ~timer' /\ ~exit_event') =>
            (cpc = "alive" /\ ~IsAlive /\ queue # <<>>)]_vars

\* the Worker put four results and exited, and the call of CheckResult that
\* found it exited took all four and stopped the timer
C38_Witness ==
    /\ StoppedByPoll
    /\ poll.exited
    /\ poll.appended
    /\ fault = -1
    /\ Len(results) = MaxTasks
    /\ results = published
    /\ queue = <<>>

====
